---- MODULE Spec2Model ----
(***************************************************************************)
(* Model of draginolog.py: the serial session with a Dragino LHT65N-E5.    *)
(*                                                                         *)
(*   SpecRace    read_boot_response: the device-listener thread, the       *)
(*               user-listener thread and the supervising loop.            *)
(*   SpecRaceOverview  SpecRace followed by the overview commands of main, *)
(*               with a read of the device-listener that can fail.         *)
(*   SpecFrame   send_command: write, flushInput, the framing loop and the *)
(*               response filter, against a device emitting bytes.         *)
(*   SpecFrameLive  SpecFrame with the fairness of the main thread.        *)
(*   SpecExchange  send_command while the reply to an earlier command is   *)
(*               still arriving.                                           *)
(*   SpecFilter  the response filter of send_command as a pure function.   *)
(*   SpecMain    main: opening the port, send_password, the export, clear  *)
(*               and normal paths, signals and errors.                     *)
(*   SpecFetch   fetch_logger_entries against a device emitting bytes.     *)
(*   SpecFetchLive  SpecFetch with the fairness of the main thread.        *)
(*   SpecFetchPending  SpecFetch called while earlier bytes are waiting.   *)
(*   SpecParse   process_datalogger_entries on one entry of any text.      *)
(*   SpecBatch   process_datalogger_entries on a batch of entries.         *)
(***************************************************************************)
EXTENDS Integers, Sequences, FiniteSets, TLC

VARIABLES
    \* ---- read_boot_response ----
    rx,               \* lines waiting in the serial input buffer (ser.in_waiting)
    emitted,          \* number of lines the device has emitted so far
    kwOnChannel,      \* history: a keyword line has appeared on the channel
    earlyAbort,       \* history: Enter set the flag before any keyword line appeared
    boot_responses,   \* the capture buffer
    user_input,       \* user_input[0], the cancellation flag
    lines_captured,   \* local of accumulate_responses
    response,         \* local of accumulate_responses: the line just read
    dl_pc,            \* position of the device-listener thread
    ul_pc,            \* position of the user-listener thread
    sv_pc,            \* position of the supervising (main) thread
    tx,               \* what has been written to the channel, in order
    events,           \* what the supervisor did after its loop, in order
    outcome,          \* the branch the supervisor took after its loop
    \* ---- send_command ----
    stream,           \* bytes the device has still to emit
    in_waiting,       \* bytes waiting in the serial input buffer
    buffer,           \* buffer
    responses,        \* responses
    processed_responses,
    idle,             \* polls slept since last_data_time
    sc_pc,            \* position in send_command
    consumed,         \* history: raw bytes read by the framing loop
    decoded,          \* history: the text those bytes decoded to
    origin,           \* history: which bytes are not of the reply to this command,
                      \* and how many bytes of the reply were discarded
    \* ---- response filter applied twice ----
    refiltered,
    \* ---- main ----
    m_pc,             \* position of main
    ser_open,         \* the serial port is open
    opens,            \* number of times the serial port was opened
    args_export,      \* args.export
    args_clear,       \* args.clear
    entries_to_export,
    requested,        \* history: the number of entries asked for
    received,         \* history: the lines readline() returned to send_password
    unlock_report,    \* what send_password printed
    \* ---- fetch_logger_entries ----
    entries,          \* the parameter entries
    logger_data,      \* logger_data
    f_pc,             \* position in fetch_logger_entries
    \* ---- process_datalogger_entries ----
    raw_entries,      \* the parameter entries
    entry_index,      \* number of entries the loop has gone through
    processed_entries,
    printed,          \* what process_datalogger_entries has printed
    p_pc,             \* position in process_datalogger_entries
    \* ---- failures of the channel ----
    failed_at         \* history: <<Len(tx)>> when the device-listener's read failed

vars == <<rx, emitted, kwOnChannel, earlyAbort, boot_responses, user_input,
          lines_captured, response, dl_pc, ul_pc, sv_pc, tx, events, outcome,
          stream, in_waiting, buffer, responses, processed_responses, idle,
          sc_pc, consumed, decoded, refiltered, origin,
          m_pc, ser_open, opens, args_export, args_clear, entries_to_export,
          requested, received, unlock_report, entries, logger_data, f_pc,
          raw_entries, entry_index, processed_entries, printed, p_pc,
          failed_at>>

parseVars == <<raw_entries, entry_index, processed_entries, printed, p_pc>>

fetchVars == <<entries, logger_data, f_pc>>

mainVars == <<m_pc, ser_open, opens, args_export, args_clear, entries_to_export,
              requested, received, unlock_report>>

raceVars == <<rx, emitted, kwOnChannel, earlyAbort, boot_responses, user_input,
              lines_captured, response, dl_pc, ul_pc, sv_pc, tx, events, outcome>>

nonRaceNoFailure == <<stream, in_waiting, buffer, responses, processed_responses,
                      idle, sc_pc, consumed, decoded, refiltered, origin, mainVars,
                      fetchVars, parseVars>>

nonRaceVars == <<nonRaceNoFailure, failed_at>>

frameVars == <<stream, in_waiting, buffer, responses, processed_responses, idle,
               sc_pc, consumed, decoded>>

raceNoTx == <<rx, emitted, kwOnChannel, earlyAbort, boot_responses, user_input,
              lines_captured, response, dl_pc, ul_pc, sv_pc, events, outcome,
              mainVars, fetchVars, parseVars, failed_at>>

(***************************************************************************)
(* Bounds                                                                  *)
(***************************************************************************)
\* lines the device emits during one boot race
MaxEmit == 7
\* bytes the device emits around one send_command
MaxStream == 4
\* framed lines given to the response filter
MaxLines == 3

(***************************************************************************)
(* read_boot_response                                                      *)
(***************************************************************************)
lines_after_keyword == 5

\* no byte on the channel belongs to the reply to an earlier command
NoStale == [staleLeft |-> 0, staleWaiting |-> 0, staleRead |-> 0, replyLost |-> 0]

password == "123456"

\* (command + '\r\n').encode()
WriteLine(command) == command \o "\r\n"

\* The three kinds of line the device can put on the channel, as readline()
\* followed by strip() returns them.
KwLine == "Dragino LHT65N"
OtherLine == "JOINED"
BlankLine == ""

LineKinds == {KwLine, OtherLine, BlankLine}

\* keyword in response
HasKeyword(l) == l = KwLine

\* an optional integer: None, or the empty input
NoNumber == [kind |-> "none", val |-> 0]

\* main is not running
IdleMainVars ==
    /\ m_pc = "idle"
    /\ ser_open = FALSE
    /\ opens = 0
    /\ args_export = NoNumber
    /\ args_clear = FALSE
    /\ entries_to_export = 0
    /\ requested = NoNumber
    /\ received = <<>>
    /\ unlock_report = "none"

\* fetch_logger_entries is not running
IdleFetchVars ==
    /\ entries = 0
    /\ logger_data = <<>>
    /\ f_pc = "idle"

\* process_datalogger_entries is not running
IdleParseVars ==
    /\ raw_entries = <<>>
    /\ entry_index = 0
    /\ processed_entries = <<>>
    /\ printed = <<>>
    /\ p_pc = "idle"

InitRaceVars ==
    /\ rx = <<>>
    /\ emitted = 0
    /\ kwOnChannel = FALSE
    /\ earlyAbort = FALSE
    /\ boot_responses = <<>>
    /\ user_input = FALSE
    /\ lines_captured = 0
    /\ response = BlankLine
    /\ dl_pc = "test"
    /\ ul_pc = "input"
    /\ sv_pc = "loop"
    /\ tx = <<>>
    /\ events = <<>>
    /\ outcome = "none"
    /\ failed_at = <<>>

\* The device puts one more line on the channel.
DeviceEmitLine ==
    /\ emitted < MaxEmit
    /\ \E l \in LineKinds :
          /\ rx' = Append(rx, l)
          /\ kwOnChannel' = (kwOnChannel \/ HasKeyword(l))
    /\ emitted' = emitted + 1
    /\ UNCHANGED <<earlyAbort, boot_responses, user_input, lines_captured,
                   response, dl_pc, ul_pc, sv_pc, tx, events, outcome>>
    /\ UNCHANGED nonRaceVars

\* while lines_captured <= lines_after_keyword and not user_input[0]
ListenerContinues == lines_captured <= lines_after_keyword /\ ~user_input

DlTest ==
    /\ dl_pc = "test"
    /\ dl_pc' = IF ListenerContinues THEN "poll" ELSE "exit"
    /\ UNCHANGED <<rx, emitted, kwOnChannel, earlyAbort, boot_responses,
                   user_input, lines_captured, response, ul_pc, sv_pc, tx, events, outcome>>
    /\ UNCHANGED nonRaceVars

\* if ser.in_waiting: response = ser.readline().decode().strip()
\* else: time.sleep(0.1)
DlPoll ==
    /\ dl_pc = "poll"
    /\ IF rx # <<>>
          THEN /\ response' = Head(rx)
               /\ rx' = Tail(rx)
               /\ dl_pc' = "proc"
          ELSE /\ dl_pc' = "test"
               /\ UNCHANGED <<rx, response>>
    /\ UNCHANGED <<emitted, kwOnChannel, earlyAbort, boot_responses, user_input,
                   lines_captured, ul_pc, sv_pc, tx, events, outcome>>
    /\ UNCHANGED nonRaceVars

\* Variant of Captures: every non-empty line is captured, keyword or not.
CapturesAnyLine(l) == l # BlankLine

\* if response: if keyword in response or lines_captured > 0: append, count
Captures(l) == l # BlankLine /\ (HasKeyword(l) \/ lines_captured > 0)

DlProc ==
    /\ dl_pc = "proc"
    /\ IF Captures(response)
          THEN /\ boot_responses' = Append(boot_responses, response)
               /\ lines_captured' = lines_captured + 1
          ELSE UNCHANGED <<boot_responses, lines_captured>>
    /\ dl_pc' = "test"
    /\ UNCHANGED <<rx, emitted, kwOnChannel, earlyAbort, user_input, response,
                   ul_pc, sv_pc, tx, events, outcome>>
    /\ UNCHANGED nonRaceVars

\* if boot_responses: print(...); the thread ends
DlExit ==
    /\ dl_pc = "exit"
    /\ dl_pc' = "done"
    /\ UNCHANGED <<rx, emitted, kwOnChannel, earlyAbort, boot_responses,
                   user_input, lines_captured, response, ul_pc, sv_pc, tx, events, outcome>>
    /\ UNCHANGED nonRaceVars

\* input() returns; user_input[0] = True
UserEnter ==
    /\ ul_pc = "input"
    /\ user_input' = TRUE
    /\ earlyAbort' = ~kwOnChannel
    /\ ul_pc' = "done"
    /\ UNCHANGED <<rx, emitted, kwOnChannel, boot_responses, lines_captured,
                   response, dl_pc, sv_pc, tx, events, outcome>>
    /\ UNCHANGED nonRaceVars

\* Variant of SupervisorWaits: the loop waits only while the buffer is empty
\* (the test of the following `if boot_responses:` used as the loop test).
SupervisorWaitsWhileEmpty == ~user_input /\ boot_responses = <<>>

\* while not user_input[0] and len(boot_responses) <= lines_after_keyword
SupervisorWaits == ~user_input /\ Len(boot_responses) <= lines_after_keyword

SvLoop ==
    /\ sv_pc = "loop"
    /\ sv_pc' = IF SupervisorWaits THEN "loop" ELSE "branch"
    /\ UNCHANGED <<rx, emitted, kwOnChannel, earlyAbort, boot_responses,
                   user_input, lines_captured, response, dl_pc, ul_pc, tx, events, outcome>>
    /\ UNCHANGED nonRaceVars

\* if boot_responses:
SvBranch ==
    /\ sv_pc = "branch"
    /\ IF boot_responses # <<>>
          THEN /\ sv_pc' = "settle1"
               /\ outcome' = "DeviceBooted"
               /\ UNCHANGED events
          ELSE /\ sv_pc' = "returned"
               /\ outcome' = "UserAborted"
               /\ events' = Append(events, "return")
    /\ UNCHANGED <<rx, emitted, kwOnChannel, earlyAbort, boot_responses,
                   user_input, lines_captured, response, dl_pc, ul_pc, tx>>
    /\ UNCHANGED nonRaceVars

\* Variant of SvSettle1: the password is written before the first delay.
SvSettle1WriteFirst ==
    /\ sv_pc = "settle1"
    /\ tx' = Append(tx, WriteLine(password))
    /\ events' = events \o <<"write_password", "sleep6">>
    /\ sv_pc' = "settle2"
    /\ UNCHANGED <<rx, emitted, kwOnChannel, earlyAbort, boot_responses,
                   user_input, lines_captured, response, dl_pc, ul_pc, outcome>>
    /\ UNCHANGED nonRaceVars

\* time.sleep(6)
SvSettle1 ==
    /\ sv_pc = "settle1"
    /\ events' = Append(events, "sleep6")
    /\ sv_pc' = "write"
    /\ UNCHANGED <<rx, emitted, kwOnChannel, earlyAbort, boot_responses,
                   user_input, lines_captured, response, dl_pc, ul_pc, tx, outcome>>
    /\ UNCHANGED nonRaceVars

\* ser.write((password + '\r\n').encode())
SvWrite ==
    /\ sv_pc = "write"
    /\ tx' = Append(tx, WriteLine(password))
    /\ events' = Append(events, "write_password")
    /\ sv_pc' = "settle2"
    /\ UNCHANGED <<rx, emitted, kwOnChannel, earlyAbort, boot_responses,
                   user_input, lines_captured, response, dl_pc, ul_pc, outcome>>
    /\ UNCHANGED nonRaceVars

\* time.sleep(3), then the function returns
SvSettle2 ==
    /\ sv_pc = "settle2"
    /\ events' = events \o <<"sleep3", "return">>
    /\ sv_pc' = "returned"
    /\ UNCHANGED <<rx, emitted, kwOnChannel, earlyAbort, boot_responses,
                   user_input, lines_captured, response, dl_pc, ul_pc, tx, outcome>>
    /\ UNCHANGED nonRaceVars

IdleFrameVars ==
    /\ stream = <<>>
    /\ in_waiting = <<>>
    /\ buffer = <<>>
    /\ responses = <<>>
    /\ processed_responses = <<>>
    /\ idle = 0
    /\ sc_pc = "idle"
    /\ consumed = <<>>
    /\ decoded = <<>>
    /\ origin = NoStale

InitRace ==
    /\ InitRaceVars
    /\ IdleFrameVars
    /\ refiltered = <<>>
    /\ IdleMainVars
    /\ IdleFetchVars
    /\ IdleParseVars

NextRace ==
    \/ DeviceEmitLine
    \/ DlTest
    \/ DlPoll
    \/ DlProc
    \/ DlExit
    \/ UserEnter
    \/ SvLoop
    \/ SvBranch
    \/ SvSettle1
    \/ SvWrite
    \/ SvSettle2

SpecRace == InitRace /\ [][NextRace]_vars

(***************************************************************************)
(* read_boot_response followed by the overview commands of main            *)
(***************************************************************************)
\* ser.in_waiting or ser.readline() raises in the device-listener: the
\* exception ends that thread only
DlFail ==
    /\ dl_pc = "poll"
    /\ dl_pc' = "failed"
    /\ failed_at' = <<Len(tx)>>
    /\ UNCHANGED <<rx, emitted, kwOnChannel, earlyAbort, boot_responses,
                   user_input, lines_captured, response, ul_pc, sv_pc, tx, events,
                   outcome>>
    /\ UNCHANGED nonRaceNoFailure

\* time.sleep(0.5), then send_command(ser, "AT+PDTA=1,1"): write, flushInput
SvOverview ==
    /\ sv_pc = "returned"
    /\ tx' = Append(tx, WriteLine("AT+PDTA=1,1"))
    /\ rx' = <<>>
    /\ sv_pc' = "overview"
    /\ UNCHANGED <<emitted, kwOnChannel, earlyAbort, boot_responses, user_input,
                   lines_captured, response, dl_pc, ul_pc, events, outcome>>
    /\ UNCHANGED nonRaceVars

\* the framing loop of that send_command reads what is waiting
SvOverviewRead ==
    /\ sv_pc = "overview"
    /\ rx # <<>>
    /\ rx' = <<>>
    /\ UNCHANGED <<emitted, kwOnChannel, earlyAbort, boot_responses, user_input,
                   lines_captured, response, dl_pc, ul_pc, sv_pc, tx, events,
                   outcome>>
    /\ UNCHANGED nonRaceVars

\* the inactivity timeout ends the exchange; AT+PLDTA=7 follows
SvOverviewEnd ==
    /\ sv_pc = "overview"
    /\ rx = <<>>
    /\ tx' = Append(tx, WriteLine("AT+PLDTA=7"))
    /\ sv_pc' = "overview_last"
    /\ UNCHANGED <<rx, emitted, kwOnChannel, earlyAbort, boot_responses,
                   user_input, lines_captured, response, dl_pc, ul_pc, events,
                   outcome>>
    /\ UNCHANGED nonRaceVars

NextRaceOverview ==
    \/ DeviceEmitLine
    \/ DlTest
    \/ DlPoll
    \/ DlProc
    \/ DlExit
    \/ UserEnter
    \/ SvLoop
    \/ SvBranch
    \/ SvSettle1
    \/ SvWrite
    \/ SvSettle2
    \/ DlFail
    \/ SvOverview
    \/ SvOverviewRead
    \/ SvOverviewEnd

SpecRaceOverview == InitRace /\ [][NextRaceOverview]_vars

(***************************************************************************)
(* send_command                                                            *)
(***************************************************************************)
CR == "\r"
LF == "\n"
SP == " "
\* a byte that is not valid UTF-8 (0xFF)
BadByte == "0xFF"

Bytes == {"a", SP, CR, LF, BadByte}

\* str.strip() removes these from both ends
Whitespace == {SP, CR, LF}

\* sleeps of 0.05 s that make up post_wait_time = 0.1 s
PostWaitTicks == 2

\* All sequences over S of length at most n.
SeqsUpTo(S, n) == UNION {[1..k -> S] : k \in 0..n}

Range(s) == {s[i] : i \in 1..Len(s)}

\* .decode('utf-8', errors='ignore'): undecodable bytes are dropped
Decode(chunk) == SelectSeq(chunk, LAMBDA b : b # BadByte)

\* position of the first '\r\n' in buf, 0 when there is none
FirstCRLF(buf) ==
    LET at == {i \in 1..(Len(buf) - 1) : buf[i] = CR /\ buf[i + 1] = LF}
    IN  IF at = {} THEN 0 ELSE CHOOSE i \in at : \A j \in at : i <= j

\* Variant of SplitLines: the `if line:` test left out, empty lines are kept.
RECURSIVE SplitLinesKeepEmpty(_, _)
SplitLinesKeepEmpty(buf, resp) ==
    IF FirstCRLF(buf) = 0
       THEN <<buf, resp>>
       ELSE LET i == FirstCRLF(buf)
                line == SubSeq(buf, 1, i - 1)
                rest == SubSeq(buf, i + 2, Len(buf))
            IN  SplitLinesKeepEmpty(rest, Append(resp, line))

\* Variant of SplitLines: what is left of the buffer after the split is
\* stripped, as the last line is at the timeout.
RECURSIVE SplitLinesStripRest(_, _)
SplitLinesStripRest(buf, resp) ==
    IF FirstCRLF(buf) = 0
       THEN <<SelectSeq(buf, LAMBDA b : b \notin {CR, LF}), resp>>
       ELSE LET i == FirstCRLF(buf)
                line == SubSeq(buf, 1, i - 1)
                rest == SubSeq(buf, i + 2, Len(buf))
            IN  SplitLinesStripRest(rest, IF line # <<>> THEN Append(resp, line) ELSE resp)

\* while '\r\n' in buffer: line, buffer = buffer.split('\r\n', 1)
\*                         if line: responses.append(line)
\* The result is <<buffer, responses>>.
RECURSIVE SplitLines(_, _)
SplitLines(buf, resp) ==
    IF FirstCRLF(buf) = 0
       THEN <<buf, resp>>
       ELSE LET i == FirstCRLF(buf)
                line == SubSeq(buf, 1, i - 1)
                rest == SubSeq(buf, i + 2, Len(buf))
            IN  SplitLines(rest, IF line # <<>> THEN Append(resp, line) ELSE resp)

\* str.strip()
RECURSIVE LStrip(_)
LStrip(s) ==
    IF s # <<>> /\ Head(s) \in Whitespace THEN LStrip(Tail(s)) ELSE s

RECURSIVE RStrip(_)
RStrip(s) ==
    IF s # <<>> /\ s[Len(s)] \in Whitespace
       THEN RStrip(SubSeq(s, 1, Len(s) - 1))
       ELSE s

Strip(s) == RStrip(LStrip(s))

\* Variant of TimedOut: the operands of the subtraction exchanged.
TimedOutReversed(n) == (0 - n) >= PostWaitTicks

\* time.time() - last_data_time >= post_wait_time
TimedOut(n) == n >= PostWaitTicks

\* The lines the filter tells apart.
OkLine == <<"O", "K">>
StartPrefix == <<"S", "t", "a", "r", "t">>

\* response.startswith(prefix)
StartsWith(line, prefix) ==
    /\ Len(line) >= Len(prefix)
    /\ SubSeq(line, 1, Len(prefix)) = prefix

\* Variant of Skipped: 'OK' is dropped wherever it stands.
SkippedEveryOk(line, processed) ==
    \/ StartsWith(line, StartPrefix)
    \/ line = OkLine

\* response.startswith('Start') or (response == 'OK' and len(processed_responses) > 0)
Skipped(line, processed) ==
    \/ StartsWith(line, StartPrefix)
    \/ (line = OkLine /\ Len(processed) > 0)

RECURSIVE FilterLoop(_, _)
FilterLoop(rest, processed) ==
    IF rest = <<>>
       THEN processed
       ELSE FilterLoop(Tail(rest),
                       IF Skipped(Head(rest), processed)
                          THEN processed
                          ELSE Append(processed, Head(rest)))

\* Variant of ResponseFilter: the unwanted lines are deleted from the list
\* that is being iterated over, so the line after a deleted one is not looked at.
RECURSIVE DeleteWhileIterating(_, _)
DeleteWhileIterating(lines, i) ==
    IF i > Len(lines)
       THEN lines
       ELSE IF Skipped(lines[i], SubSeq(lines, 1, i - 1))
               THEN DeleteWhileIterating(
                        SubSeq(lines, 1, i - 1) \o SubSeq(lines, i + 1, Len(lines)),
                        i + 1)
               ELSE DeleteWhileIterating(lines, i + 1)

ResponseFilterInPlace(lines) == DeleteWhileIterating(lines, 1)

\* processed_responses = []; for response in responses: ...
ResponseFilter(lines) == FilterLoop(lines, <<>>)

IdleRaceVars ==
    /\ rx = <<>>
    /\ emitted = 0
    /\ kwOnChannel = FALSE
    /\ earlyAbort = FALSE
    /\ boot_responses = <<>>
    /\ user_input = FALSE
    /\ lines_captured = 0
    /\ response = BlankLine
    /\ dl_pc = "idle"
    /\ ul_pc = "idle"
    /\ sv_pc = "idle"
    /\ tx = <<>>
    /\ events = <<>>
    /\ outcome = "none"
    /\ failed_at = <<>>

\* The command of the exchange.
command == "AT+TDC=?"

\* The device emits the next bytes of its stream, any number at a time.
DeviceEmitBytes ==
    /\ sc_pc # "idle"
    /\ stream # <<>>
    /\ \E k \in 1..Len(stream) :
          /\ in_waiting' = in_waiting \o SubSeq(stream, 1, k)
          /\ stream' = SubSeq(stream, k + 1, Len(stream))
          /\ origin' = IF sc_pc = "write"
                           THEN [origin EXCEPT !.staleWaiting = @ + k]
                           ELSE origin
    /\ UNCHANGED <<buffer, responses, processed_responses, idle, sc_pc,
                   consumed, decoded, refiltered, tx>>
    /\ UNCHANGED raceNoTx

\* ser.write((command + '\r\n').encode())
ScWrite ==
    /\ sc_pc = "write"
    /\ tx' = Append(tx, WriteLine(command))
    /\ sc_pc' = "flush"
    /\ UNCHANGED <<stream, in_waiting, buffer, responses, processed_responses,
                   idle, consumed, decoded, refiltered>>
    /\ UNCHANGED raceNoTx
    /\ UNCHANGED origin

\* ser.flushInput(); responses = []; buffer = ''; last_data_time = time.time()
ScFlush ==
    /\ sc_pc = "flush"
    /\ in_waiting' = <<>>
    /\ responses' = <<>>
    /\ buffer' = <<>>
    /\ idle' = 0
    /\ sc_pc' = "loop"
    /\ UNCHANGED <<stream, processed_responses, consumed, decoded, refiltered, tx>>
    /\ UNCHANGED raceNoTx
    /\ origin' = [origin EXCEPT
                    !.staleWaiting = 0,
                    !.replyLost = @ + (Len(in_waiting) - origin.staleWaiting)]

\* if ser.in_waiting: read all of it, decode, append to buffer, split lines
ScRead ==
    /\ sc_pc = "loop"
    /\ in_waiting # <<>>
    /\ LET data == Decode(in_waiting)
           split == SplitLines(buffer \o data, responses)
       IN  /\ buffer' = split[1]
           /\ responses' = split[2]
           /\ decoded' = decoded \o data
    /\ consumed' = consumed \o in_waiting
    /\ in_waiting' = <<>>
    /\ idle' = 0
    /\ UNCHANGED <<stream, processed_responses, sc_pc, refiltered, tx>>
    /\ UNCHANGED raceNoTx
    /\ origin' = [origin EXCEPT !.staleRead = @ + origin.staleWaiting,
                                 !.staleWaiting = 0]

\* elif time.time() - last_data_time >= post_wait_time: flush the rest, break;
\* then the responses are filtered and returned
ScTimeout ==
    /\ sc_pc = "loop"
    /\ in_waiting = <<>>
    /\ TimedOut(idle)
    /\ LET flushed == IF Strip(buffer) # <<>>
                         THEN Append(responses, Strip(buffer))
                         ELSE responses
       IN  /\ responses' = flushed
           /\ processed_responses' = ResponseFilter(flushed)
    /\ sc_pc' = "done"
    /\ UNCHANGED <<stream, in_waiting, buffer, idle, consumed, decoded,
                   refiltered, tx>>
    /\ UNCHANGED raceNoTx
    /\ UNCHANGED origin

\* else: time.sleep(0.05)
ScSleep ==
    /\ sc_pc = "loop"
    /\ in_waiting = <<>>
    /\ ~TimedOut(idle)
    /\ idle' = IF idle < PostWaitTicks THEN idle + 1 ELSE idle
    /\ UNCHANGED <<stream, in_waiting, buffer, responses, processed_responses,
                   sc_pc, consumed, decoded, refiltered, tx>>
    /\ UNCHANGED raceNoTx
    /\ UNCHANGED origin

InitFrame ==
    /\ IdleRaceVars
    /\ stream \in SeqsUpTo(Bytes, MaxStream)
    /\ in_waiting = <<>>
    /\ buffer = <<>>
    /\ responses = <<>>
    /\ processed_responses = <<>>
    /\ idle = 0
    /\ sc_pc = "write"
    /\ consumed = <<>>
    /\ decoded = <<>>
    /\ origin = NoStale
    /\ refiltered = <<>>
    /\ IdleMainVars
    /\ IdleFetchVars
    /\ IdleParseVars

ScStep == ScWrite \/ ScFlush \/ ScRead \/ ScTimeout \/ ScSleep

NextFrame ==
    \/ DeviceEmitBytes
    \/ ScWrite
    \/ ScFlush
    \/ ScRead
    \/ ScTimeout
    \/ ScSleep

SpecFrame == InitFrame /\ [][NextFrame]_vars

\* The main thread keeps running: a step of send_command that can be taken is
\* eventually taken. Nothing is assumed of the device.
SpecFrameLive == InitFrame /\ [][NextFrame]_vars /\ WF_vars(ScStep)

(***************************************************************************)
(* send_command while the reply to an earlier command is still arriving    *)
(***************************************************************************)
Min(a, b) == IF a <= b THEN a ELSE b

\* The device emits the next bytes of its stream. The first origin.staleLeft
\* of them end the reply to an earlier command; the reply to this command
\* cannot start before the command has been written.
DeviceEmitReply ==
    /\ sc_pc # "idle"
    /\ stream # <<>>
    /\ \E k \in 1..Len(stream) :
          /\ sc_pc = "write" => k <= origin.staleLeft
          /\ in_waiting' = in_waiting \o SubSeq(stream, 1, k)
          /\ stream' = SubSeq(stream, k + 1, Len(stream))
          /\ origin' = [origin EXCEPT
                          !.staleLeft = @ - Min(k, origin.staleLeft),
                          !.staleWaiting = @ + Min(k, origin.staleLeft)]
    /\ UNCHANGED <<buffer, responses, processed_responses, idle, sc_pc,
                   consumed, decoded, refiltered, tx>>
    /\ UNCHANGED raceNoTx

InitExchange ==
    /\ IdleRaceVars
    /\ stream \in SeqsUpTo(Bytes, MaxStream)
    /\ \E n \in 0..Len(stream) :
          origin = [NoStale EXCEPT !.staleLeft = n]
    /\ in_waiting = <<>>
    /\ buffer = <<>>
    /\ responses = <<>>
    /\ processed_responses = <<>>
    /\ idle = 0
    /\ sc_pc = "write"
    /\ consumed = <<>>
    /\ decoded = <<>>
    /\ refiltered = <<>>
    /\ IdleMainVars
    /\ IdleFetchVars
    /\ IdleParseVars

NextExchange ==
    \/ DeviceEmitReply
    \/ ScWrite
    \/ ScFlush
    \/ ScRead
    \/ ScTimeout
    \/ ScSleep

SpecExchange == InitExchange /\ [][NextExchange]_vars

(***************************************************************************)
(* The response filter of send_command on its own                          *)
(***************************************************************************)
FilterLines ==
    { OkLine,
      StartPrefix,
      StartPrefix \o <<"u", "p">>,
      <<"O", "K", "!">>,
      <<"S", "t">>,
      <<"T", "=", "2">> }

InitFilter ==
    /\ IdleRaceVars
    /\ stream = <<>>
    /\ in_waiting = <<>>
    /\ buffer = <<>>
    /\ responses \in SeqsUpTo(FilterLines, MaxLines)
    /\ processed_responses = <<>>
    /\ idle = 0
    /\ sc_pc = "filter"
    /\ consumed = <<>>
    /\ decoded = <<>>
    /\ origin = NoStale
    /\ refiltered = <<>>
    /\ IdleMainVars
    /\ IdleFetchVars
    /\ IdleParseVars

\* the filter loop of send_command on the framed lines
FilterOnce ==
    /\ sc_pc = "filter"
    /\ processed_responses' = ResponseFilter(responses)
    /\ sc_pc' = "filtered"
    /\ UNCHANGED <<stream, in_waiting, buffer, responses, idle, consumed,
                   decoded, refiltered, tx>>
    /\ UNCHANGED raceNoTx
    /\ UNCHANGED origin

\* the same loop on its own output
FilterAgain ==
    /\ sc_pc = "filtered"
    /\ refiltered' = ResponseFilter(processed_responses)
    /\ sc_pc' = "refiltered"
    /\ UNCHANGED <<stream, in_waiting, buffer, responses, processed_responses,
                   idle, consumed, decoded, tx>>
    /\ UNCHANGED raceNoTx
    /\ UNCHANGED origin

NextFilter ==
    \/ FilterOnce
    \/ FilterAgain

SpecFilter == InitFilter /\ [][NextFilter]_vars

(***************************************************************************)
(* main: the session from opening the serial port to leaving it            *)
(***************************************************************************)
\* the device accepts no export larger than this
MaxExport == 3328

\* the const of -E, which makes main prompt for the number
DefaultExport == 100

\* most lines the device emits during the reply window of send_password
MaxReply == 2

Number(n) == [kind |-> "int", val |-> n]

\* an input that int() rejects
NotANumber == [kind |-> "text", val |-> 0]

\* values of args.export: None when -E is absent, else an int
ExportArgs == {NoNumber, Number(0), Number(7), Number(DefaultExport),
               Number(MaxExport), Number(MaxExport + 1)}

\* what the user can type at the prompt for the number of entries
PromptInputs == {NoNumber, NotANumber, Number(7), Number(MaxExport),
                 Number(MaxExport + 1)}

\* A raw line on the channel: its text, and whether it holds a byte that is
\* not valid UTF-8.
RawLine(t, b) == [text |-> t, bad |-> b]

PasswordLine == "Correct Password"

ReplyLines == {RawLine(t, b) : t \in {PasswordLine, OtherLine, BlankLine}, b \in BOOLEAN}

\* "Password" in resp
ContainsPassword(t) == t = PasswordLine

\* variables main never touches
mainIdle == <<kwOnChannel, earlyAbort, boot_responses, user_input, lines_captured,
              response, dl_pc, ul_pc, sv_pc, outcome, stream, in_waiting, buffer,
              processed_responses, idle, sc_pc, consumed, decoded, origin,
              refiltered, fetchVars, parseVars, failed_at>>

mainArgs == <<args_export, args_clear, entries_to_export, requested>>

mainReply == <<rx, emitted, responses, received, unlock_report>>

Terminal == {"exit_normal", "exit_sysexit", "exit_signal", "exit_error"}

\* positions of main at which send_password is running
InSendPassword == {"sp_write", "sp_sleep", "sp_window", "sp_report", "sp_settle"}

\* positions of main inside the with-block
InsideWith == {"input_password"} \cup InSendPassword \cup
              {"show_current_values", "branch", "export_count", "export_file",
               "fetch", "export_csv", "export_clear", "clear_only", "clear_write",
               "show_logger", "configure", "read_boot_response", "overview",
               "end_of_with"}

\* serial.Serial(...) succeeds and the with-block is entered
MainOpen ==
    /\ m_pc = "open"
    /\ ser_open' = TRUE
    /\ opens' = opens + 1
    /\ m_pc' = "input_password"
    /\ UNCHANGED <<tx, events, mainReply, mainArgs, mainIdle>>

\* serial.Serial(...) raises: the with-block is never entered
MainOpenFails ==
    /\ m_pc = "open"
    /\ m_pc' = "exit_error"
    /\ UNCHANGED <<ser_open, opens, tx, events, mainReply, mainArgs, mainIdle>>

MainInputPassword ==
    /\ m_pc = "input_password"
    /\ m_pc' = "sp_write"
    /\ UNCHANGED <<ser_open, opens, tx, events, mainReply, mainArgs, mainIdle>>

\* the device emits a line while send_password sleeps or collects
DeviceReplies ==
    /\ m_pc \in {"sp_sleep", "sp_window"}
    /\ emitted < MaxReply
    /\ \E l \in ReplyLines : rx' = Append(rx, l)
    /\ emitted' = emitted + 1
    /\ UNCHANGED <<m_pc, ser_open, opens, tx, events, responses, received,
                   unlock_report, mainArgs, mainIdle>>

SpWrite ==
    /\ m_pc = "sp_write"
    /\ tx' = Append(tx, WriteLine(password))
    /\ events' = Append(events, "write_password")
    /\ m_pc' = "sp_sleep"
    /\ UNCHANGED <<ser_open, opens, mainReply, mainArgs, mainIdle>>

SpSleep ==
    /\ m_pc = "sp_sleep"
    /\ events' = Append(events, "sleep_answer_wait")
    /\ m_pc' = "sp_window"
    /\ UNCHANGED <<ser_open, opens, tx, mainReply, mainArgs, mainIdle>>

\* one pass of the collecting loop with ser.in_waiting: readline, decode,
\* strip, append; decode raises on a byte that is not valid UTF-8 and the
\* exception leaves the with-block
SpRead ==
    /\ m_pc = "sp_window"
    /\ rx # <<>>
    /\ rx' = Tail(rx)
    /\ received' = Append(received, Head(rx))
    /\ IF Head(rx).bad
          THEN /\ m_pc' = "exit_error"
               /\ ser_open' = FALSE
               /\ events' = Append(events, "raise")
               /\ UNCHANGED responses
          ELSE /\ responses' = Append(responses, Head(rx).text)
               /\ UNCHANGED <<m_pc, ser_open, events>>
    /\ UNCHANGED <<opens, tx, emitted, unlock_report, mainArgs, mainIdle>>

\* answer_wait_time has passed since start_time
SpWindowEnds ==
    /\ m_pc = "sp_window"
    /\ m_pc' = "sp_report"
    /\ UNCHANGED <<ser_open, opens, tx, events, mainReply, mainArgs, mainIdle>>

\* the report skips the settling sleep when nothing confirmed the password
SpReportReturnsEarly ==
    /\ m_pc = "sp_report"
    /\ IF \E i \in 1..Len(responses) : ContainsPassword(responses[i])
          THEN unlock_report' = "confirmed" /\ m_pc' = "sp_settle"
          ELSE unlock_report' = "already_unlocked" /\ m_pc' = "show_current_values"
    /\ UNCHANGED <<ser_open, opens, tx, events, rx, emitted, responses, received,
                   mainArgs, mainIdle>>

SpReport ==
    /\ m_pc = "sp_report"
    /\ unlock_report' =
          IF \E i \in 1..Len(responses) : ContainsPassword(responses[i])
             THEN "confirmed" ELSE "already_unlocked"
    /\ m_pc' = "sp_settle"
    /\ UNCHANGED <<ser_open, opens, tx, events, rx, emitted, responses, received,
                   mainArgs, mainIdle>>

\* time.sleep(next_command_wait_time), then send_password returns
SpSettle ==
    /\ m_pc = "sp_settle"
    /\ events' = Append(events, "sleep_next_command_wait")
    /\ m_pc' = "show_current_values"
    /\ UNCHANGED <<ser_open, opens, tx, mainReply, mainArgs, mainIdle>>

CurrentValuesCommands ==
    <<WriteLine("AT+DADDR=?"), WriteLine("AT+DEUI=?"), WriteLine("AT+TDC=?"),
      WriteLine("AT+GETSENSORVALUE=0"), WriteLine("AT+TIMESTAMP=?")>>

ShowCurrentValues ==
    /\ m_pc = "show_current_values"
    /\ tx' = tx \o CurrentValuesCommands
    /\ m_pc' = "branch"
    /\ UNCHANGED <<ser_open, opens, events, mainReply, mainArgs, mainIdle>>

MainBranch ==
    /\ m_pc = "branch"
    /\ m_pc' = IF args_export # NoNumber THEN "export_count"
               ELSE IF args_clear THEN "clear_only"
               ELSE "show_logger"
    /\ UNCHANGED <<ser_open, opens, tx, events, mainReply, mainArgs, mainIdle>>

\* clamping without the comparison with the maximum
Unclamped(n) == n

\* if n > 3328: n = 3328
Clamp(n) == IF n > MaxExport THEN MaxExport ELSE n

\* the number of entries to export, from -E or from the prompt
MainExportCount ==
    /\ m_pc = "export_count"
    /\ IF args_export.val = DefaultExport
          THEN \E typed \in PromptInputs :
                  /\ requested' = typed
                  /\ entries_to_export' =
                        IF typed.kind = "int" THEN Clamp(typed.val)
                        ELSE DefaultExport
                  /\ UNCHANGED args_export
          ELSE /\ requested' = args_export
               /\ args_export' = Number(Clamp(args_export.val))
               /\ entries_to_export' = Clamp(args_export.val)
    /\ m_pc' = "export_file"
    /\ UNCHANGED <<ser_open, opens, tx, events, mainReply, args_clear, mainIdle>>

\* the filename prompt and check_file_and_get_action; cancel leaves through
\* sys.exit(0)
MainExportFile ==
    /\ m_pc = "export_file"
    /\ \E action \in {"create", "overwrite", "append", "cancel"} :
          IF action = "cancel"
             THEN /\ m_pc' = "exit_sysexit"
                  /\ ser_open' = FALSE
                  /\ events' = Append(events, "export_cancelled")
             ELSE /\ m_pc' = "fetch"
                  /\ UNCHANGED <<ser_open, events>>
    /\ UNCHANGED <<opens, tx, mainReply, mainArgs, mainIdle>>

\* fetch_logger_entries(ser, entries=entries_to_export)
MainFetch ==
    /\ m_pc = "fetch"
    /\ tx' = Append(tx, WriteLine("AT+PLDTA=" \o ToString(entries_to_export)))
    /\ events' = Append(events, "fetch_logger_entries")
    /\ m_pc' = "export_csv"
    /\ UNCHANGED <<ser_open, opens, mainReply, mainArgs, mainIdle>>

\* export_to_csv, then the test of args.clear
MainExportCsv ==
    /\ m_pc = "export_csv"
    /\ events' = Append(events, "export_to_csv")
    /\ IF args_clear
          THEN m_pc' = "export_clear" /\ UNCHANGED ser_open
          ELSE m_pc' = "exit_sysexit" /\ ser_open' = FALSE
    /\ UNCHANGED <<opens, tx, mainReply, mainArgs, mainIdle>>

\* what the operator can type at the confirmation prompt
ClearAnswers == {"y", "Y", "yes", "n", ""}

\* str.lower()
Lower(answer) == IF answer = "Y" THEN "y" ELSE answer

\* a confirmation that takes everything but a no for a yes
ConfirmClearUnlessNo(answer) == Lower(answer) # "n"

\* return response == 'y', response being input().lower()
ConfirmClear(answer) == Lower(answer) = "y"

\* if confirm_clear(): ... else: print, sys.exit(0)
MainConfirmClear ==
    /\ m_pc \in {"export_clear", "clear_only"}
    /\ \E answer \in ClearAnswers :
          /\ events' = Append(events, "confirm_clear " \o answer)
          /\ IF ConfirmClear(answer)
                THEN m_pc' = "clear_write" /\ UNCHANGED ser_open
                ELSE m_pc' = "exit_sysexit" /\ ser_open' = FALSE
    /\ UNCHANGED <<opens, tx, mainReply, mainArgs, mainIdle>>

\* send_command(ser, "AT+CLRDTA"), then sys.exit(0)
MainClearWrite ==
    /\ m_pc = "clear_write"
    /\ tx' = Append(tx, WriteLine("AT+CLRDTA"))
    /\ m_pc' = "exit_sysexit"
    /\ ser_open' = FALSE
    /\ UNCHANGED <<opens, events, mainReply, mainArgs, mainIdle>>

\* show_logger: int(entries) raises on an input that is no number, before
\* send_command is entered
MainShowLogger ==
    /\ m_pc = "show_logger"
    /\ \E typed \in {NoNumber, NotANumber, Number(7)} :
          IF typed = NotANumber
             THEN /\ m_pc' = "exit_error"
                  /\ ser_open' = FALSE
                  /\ UNCHANGED tx
             ELSE /\ tx' = Append(tx, WriteLine("AT+PLDTA=" \o
                            ToString(IF typed = NoNumber THEN 10 ELSE typed.val)))
                  /\ m_pc' = "configure"
                  /\ UNCHANGED ser_open
    /\ UNCHANGED <<opens, events, mainReply, mainArgs, mainIdle>>

\* the interval prompt, the four setting commands and show_current_values
MainConfigure ==
    /\ m_pc = "configure"
    /\ \E typed \in {NoNumber, NotANumber} :
          IF typed = NotANumber
             THEN /\ m_pc' = "exit_error"
                  /\ ser_open' = FALSE
                  /\ UNCHANGED tx
             ELSE /\ tx' = tx \o <<WriteLine("AT+TIMESTAMP=now"), WriteLine("AT+TXP=5"),
                                   WriteLine("AT+NJM=0"), WriteLine("AT+TDC=3600000")>>
                           \o CurrentValuesCommands
                  /\ m_pc' = "read_boot_response"
                  /\ UNCHANGED ser_open
    /\ UNCHANGED <<opens, events, mainReply, mainArgs, mainIdle>>

\* read_boot_response returns, having sent the password again or not
MainReadBootResponse ==
    /\ m_pc = "read_boot_response"
    /\ \E resent \in BOOLEAN :
          tx' = IF resent THEN Append(tx, WriteLine(password)) ELSE tx
    /\ m_pc' = "overview"
    /\ UNCHANGED <<ser_open, opens, events, mainReply, mainArgs, mainIdle>>

MainOverview ==
    /\ m_pc = "overview"
    /\ tx' = tx \o <<WriteLine("AT+PDTA=1,1"), WriteLine("AT+PLDTA=7")>>
    /\ m_pc' = "end_of_with"
    /\ UNCHANGED <<ser_open, opens, events, mainReply, mainArgs, mainIdle>>

\* the end of the with-block: Serial.__exit__ closes the port
MainEnd ==
    /\ m_pc = "end_of_with"
    /\ ser_open' = FALSE
    /\ m_pc' = "exit_normal"
    /\ UNCHANGED <<opens, tx, events, mainReply, mainArgs, mainIdle>>

\* the handler ends the process at once, as os._exit would
GracefulExitAtOnce ==
    /\ m_pc \in InsideWith \cup {"open"}
    /\ m_pc' = "exit_signal"
    /\ UNCHANGED <<ser_open, opens, tx, events, mainReply, mainArgs, mainIdle>>

\* SIGINT or SIGTERM: graceful_exit raises SystemExit in the main thread,
\* which leaves the with-block when inside it
GracefulExit ==
    /\ m_pc \in InsideWith \cup {"open"}
    /\ m_pc' = "exit_signal"
    /\ ser_open' = FALSE
    /\ UNCHANGED <<opens, tx, events, mainReply, mainArgs, mainIdle>>

\* a read or write on the port raises; nothing catches it
TransportError ==
    /\ m_pc \in InSendPassword \cup
                {"show_current_values", "fetch", "clear_write",
                 "show_logger", "configure", "read_boot_response", "overview"}
    /\ m_pc' = "exit_error"
    /\ ser_open' = FALSE
    /\ UNCHANGED <<opens, tx, events, mainReply, mainArgs, mainIdle>>

InitMain ==
    /\ IdleRaceVars
    /\ IdleFrameVars
    /\ refiltered = <<>>
    /\ m_pc = "open"
    /\ ser_open = FALSE
    /\ opens = 0
    /\ args_export \in ExportArgs
    /\ args_clear \in BOOLEAN
    /\ entries_to_export = 0
    /\ requested = NoNumber
    /\ received = <<>>
    /\ unlock_report = "none"
    /\ IdleFetchVars
    /\ IdleParseVars

NextMain ==
    \/ MainOpen
    \/ MainOpenFails
    \/ MainInputPassword
    \/ DeviceReplies
    \/ SpWrite
    \/ SpSleep
    \/ SpRead
    \/ SpWindowEnds
    \/ SpReport
    \/ SpSettle
    \/ ShowCurrentValues
    \/ MainBranch
    \/ MainExportCount
    \/ MainExportFile
    \/ MainFetch
    \/ MainExportCsv
    \/ MainConfirmClear
    \/ MainClearWrite
    \/ MainShowLogger
    \/ MainConfigure
    \/ MainReadBootResponse
    \/ MainOverview
    \/ MainEnd
    \/ GracefulExit
    \/ TransportError

SpecMain == InitMain /\ [][NextMain]_vars

(***************************************************************************)
(* fetch_logger_entries                                                    *)
(***************************************************************************)
\* most entries asked for
MaxEntries == 2

\* line, buffer = buffer.split('\n', 1) while '\n' in buffer; each line is
\* stripped and appended when not empty
RECURSIVE SplitEntries(_, _)
SplitEntries(buf, data) ==
    IF \E i \in 1..Len(buf) : buf[i] = LF
       THEN LET i == CHOOSE j \in 1..Len(buf) :
                        buf[j] = LF /\ \A k \in 1..(j - 1) : buf[k] # LF
                line == Strip(SubSeq(buf, 1, i - 1))
            IN SplitEntries(SubSeq(buf, i + 1, Len(buf)),
                            IF line # <<>> THEN Append(data, line) ELSE data)
       ELSE [buffer |-> buf, logger_data |-> data]

\* a loop test that also goes round when the count is just reached
FetchLoopsAtCount(have, wanted) == have <= wanted

\* while len(logger_data) < entries
FetchLoops(have, wanted) == have < wanted

\* variables fetch_logger_entries never touches
fetchIdle == <<rx, emitted, kwOnChannel, earlyAbort, boot_responses, user_input,
               lines_captured, response, dl_pc, ul_pc, sv_pc, events, outcome,
               responses, processed_responses, idle, sc_pc, decoded,
               refiltered, mainVars, parseVars, failed_at>>

\* the device emits the next bytes of its reply
DeviceEmitEntries ==
    /\ f_pc = "loop"
    /\ stream # <<>>
    /\ \E k \in 1..Len(stream) :
          /\ in_waiting' = in_waiting \o SubSeq(stream, 1, k)
          /\ stream' = SubSeq(stream, k + 1, Len(stream))
    /\ UNCHANGED <<buffer, consumed, tx, origin, fetchVars, fetchIdle>>

FetchWrite ==
    /\ f_pc = "write"
    /\ tx' = Append(tx, WriteLine("AT+PLDTA=" \o ToString(entries)))
    /\ f_pc' = "loop"
    /\ UNCHANGED <<stream, in_waiting, buffer, consumed, entries, logger_data,
                   origin, fetchIdle>>

\* one pass of the loop with ser.in_waiting: read what is waiting, decode
\* ignoring errors, split
FetchRead ==
    /\ f_pc = "loop"
    /\ FetchLoops(Len(logger_data), entries)
    /\ in_waiting # <<>>
    /\ LET split == SplitEntries(buffer \o Decode(in_waiting), logger_data)
       IN /\ buffer' = split.buffer
          /\ logger_data' = split.logger_data
    /\ consumed' = consumed \o in_waiting
    /\ in_waiting' = <<>>
    /\ origin' = [origin EXCEPT !.staleRead = @ + origin.staleWaiting,
                                 !.staleWaiting = 0]
    /\ UNCHANGED <<stream, tx, entries, f_pc, fetchIdle>>

\* the loop test fails: return logger_data
FetchReturn ==
    /\ f_pc = "loop"
    /\ ~FetchLoops(Len(logger_data), entries)
    /\ f_pc' = "done"
    /\ UNCHANGED <<stream, in_waiting, buffer, consumed, tx, entries, logger_data,
                   origin, fetchIdle>>

InitFetch ==
    /\ IdleRaceVars
    /\ IdleMainVars
    /\ stream \in SeqsUpTo(Bytes, MaxStream)
    /\ in_waiting = <<>>
    /\ buffer = <<>>
    /\ responses = <<>>
    /\ processed_responses = <<>>
    /\ idle = 0
    /\ sc_pc = "idle"
    /\ consumed = <<>>
    /\ decoded = <<>>
    /\ origin = NoStale
    /\ refiltered = <<>>
    /\ entries \in 0..MaxEntries
    /\ logger_data = <<>>
    /\ f_pc = "write"
    /\ IdleParseVars

\* fetch_logger_entries is called while bytes of an earlier exchange are
\* waiting in the input buffer: the first bytes of what the device sends
InitFetchPending ==
    /\ IdleRaceVars
    /\ IdleMainVars
    /\ IdleParseVars
    /\ \E all \in SeqsUpTo(Bytes, MaxStream) : \E n \in 0..Len(all) :
          /\ in_waiting = SubSeq(all, 1, n)
          /\ stream = SubSeq(all, n + 1, Len(all))
          /\ origin = [NoStale EXCEPT !.staleWaiting = n]
    /\ buffer = <<>>
    /\ responses = <<>>
    /\ processed_responses = <<>>
    /\ idle = 0
    /\ sc_pc = "idle"
    /\ consumed = <<>>
    /\ decoded = <<>>
    /\ refiltered = <<>>
    /\ entries \in 0..MaxEntries
    /\ logger_data = <<>>
    /\ f_pc = "write"

FetchStep == FetchWrite \/ FetchRead \/ FetchReturn

NextFetch ==
    \/ DeviceEmitEntries
    \/ FetchWrite
    \/ FetchRead
    \/ FetchReturn

SpecFetch == InitFetch /\ [][NextFetch]_vars

SpecFetchPending == InitFetchPending /\ [][NextFetch]_vars

\* fetch_logger_entries runs in the main thread, which is never starved
SpecFetchLive == InitFetch /\ [][NextFetch]_vars /\ WF_vars(FetchStep)

(***************************************************************************)
(* process_datalogger_entries                                              *)
(***************************************************************************)
\* longest entry
MaxEntryLen == 7

\* most entries in a batch
MaxBatch == 3

\* an entry of at most this many characters is skipped
ShortEntry == 5

EQ == "="

COMMA == ","

EntryChars == {"T", "x", EQ, SP}

NoiseWords ==
    {<<"t", "o", "p">>, <<"T", "x">>, <<"e", "v", "e", "n", "t", "s">>,
     <<"w", "h", "e", "n">>, <<"r", "e", "a", "d">>,
     <<"s", "e", "n", "s", "o", "r">>, <<"d", "a", "t", "a">>}

\* word in entry
Contains(entry, word) ==
    \E i \in 1..(Len(entry) - Len(word) + 1) :
        SubSeq(entry, i, i + Len(word) - 1) = word

\* s.split(d) for a one-character d
RECURSIVE SplitOn(_, _)
SplitOn(s, d) ==
    IF \E i \in 1..Len(s) : s[i] = d
       THEN LET i == CHOOSE j \in 1..Len(s) :
                        s[j] = d /\ \A k \in 1..(j - 1) : s[k] # d
            IN <<SubSeq(s, 1, i - 1)>> \o SplitOn(SubSeq(s, i + 1, Len(s)), d)
       ELSE <<s>>

\* d.join(parts)
RECURSIVE Join(_, _)
Join(parts, d) ==
    IF parts = <<>> THEN <<>>
    ELSE IF Len(parts) = 1 THEN parts[1]
    ELSE parts[1] \o <<d>> \o Join(Tail(parts), d)

\* the loop over enumerate(parts), from index i (counted from 1 here)
RECURSIVE ProcessParts(_, _, _)
ProcessParts(parts, i, processed_parts) ==
    IF i > Len(parts) THEN processed_parts
    ELSE LET part == parts[i]
             key_value == SplitOn(part, EQ)
         IN ProcessParts(parts, i + 1,
               IF part = <<>> THEN processed_parts
               ELSE IF i = 1 THEN Append(processed_parts, Strip(part))
               ELSE IF \E j \in 1..Len(part) : part[j] = EQ
                    THEN IF Len(key_value) = 2
                            THEN Append(processed_parts, Strip(key_value[2]))
                            ELSE processed_parts
               ELSE Append(processed_parts, Strip(part)))

\* the two tests that make the loop go on to the next entry
SkipsEntry(entry) ==
    \/ Len(entry) <= ShortEntry
    \/ \E word \in NoiseWords : Contains(entry, word)

\* variables process_datalogger_entries never touches
parseIdle == <<rx, emitted, kwOnChannel, earlyAbort, boot_responses, user_input,
               lines_captured, response, dl_pc, ul_pc, sv_pc, tx, events, outcome,
               stream, in_waiting, buffer, responses, processed_responses, idle,
               sc_pc, consumed, decoded, origin, refiltered, mainVars, fetchVars,
               failed_at>>

\* one pass of the loop over entries; nothing is printed for a skipped entry
ParseEntry ==
    /\ p_pc = "loop"
    /\ entry_index < Len(raw_entries)
    /\ LET entry == raw_entries[entry_index + 1]
           processed_parts == ProcessParts(SplitOn(entry, SP), 1, <<>>)
       IN processed_entries' =
             IF SkipsEntry(entry) \/ processed_parts = <<>>
                THEN processed_entries
                ELSE Append(processed_entries, Join(processed_parts, COMMA))
    /\ entry_index' = entry_index + 1
    /\ UNCHANGED <<raw_entries, printed, p_pc, parseIdle>>

\* return processed_entries
ParseReturn ==
    /\ p_pc = "loop"
    /\ entry_index = Len(raw_entries)
    /\ p_pc' = "done"
    /\ UNCHANGED <<raw_entries, entry_index, processed_entries, printed, parseIdle>>

\* The entries come from fetch_logger_entries: stripped and not empty.
StrippedEntries(n) ==
    {e \in SeqsUpTo(EntryChars, n) : e # <<>> /\ Strip(e) = e}

IdleAllButParse ==
    /\ IdleRaceVars
    /\ IdleFrameVars
    /\ IdleMainVars
    /\ IdleFetchVars
    /\ refiltered = <<>>

\* one entry, any text
InitParse ==
    /\ IdleAllButParse
    /\ \E e \in StrippedEntries(MaxEntryLen) : raw_entries = <<e>>
    /\ entry_index = 0
    /\ processed_entries = <<>>
    /\ printed = <<>>
    /\ p_pc = "loop"

NextParse ==
    \/ ParseEntry
    \/ ParseReturn

SpecParse == InitParse /\ [][NextParse]_vars

\* a too short entry, a noise entry, and two entries with data
BatchEntries ==
    {<<"x", SP, "x", EQ, "T">>,
     <<"T", "x", SP, "x", EQ, "T">>,
     <<"x", SP, "x", EQ, "T", SP, "T">>,
     <<"x", "x", SP, SP, "T", EQ, "x">>}

\* a batch of entries
InitBatch ==
    /\ IdleAllButParse
    /\ raw_entries \in SeqsUpTo(BatchEntries, MaxBatch)
    /\ entry_index = 0
    /\ processed_entries = <<>>
    /\ printed = <<>>
    /\ p_pc = "loop"

SpecBatch == InitBatch /\ [][NextParse]_vars

(***************************************************************************)
(* Claims about read_boot_response, checked under SpecRace                 *)
(***************************************************************************)

\* C1: if Enter sets the cancellation flag before any keyword line has
\* appeared on the channel, the supervisor never takes the DeviceBooted branch
\* and the password is never resent, whatever the channel delivers afterwards.
C1_EarlyAbortIsUserAborted ==
    earlyAbort => (outcome # "DeviceBooted" /\ tx = <<>>)

\* C2: the password is resent only if the capture reached its full quota
\* (lines_after_keyword + 1 lines); a race ended by Enter with an empty or a
\* partly filled capture resends nothing.
C2_ResendOnlyAfterFullCapture ==
    (outcome = "DeviceBooted" \/ tx # <<>>)
        => Len(boot_responses) > lines_after_keyword

\* C3: on the DeviceBooted branch the supervisor does, in this order and once
\* each: the first settle delay, one write of the password plus line
\* terminator, the second settle delay, the return; nothing else is written to
\* the channel between the end of the race and that write.
C3_BootedFollowUpOrder ==
    /\ sv_pc \in {"loop", "branch", "settle1"} => (events = <<>> /\ tx = <<>>)
    /\ sv_pc = "write" => (events = <<"sleep6">> /\ tx = <<>>)
    /\ sv_pc = "settle2" =>
          /\ events = <<"sleep6", "write_password">>
          /\ tx = <<WriteLine(password)>>
    /\ (sv_pc = "returned" /\ outcome = "DeviceBooted") =>
          /\ events = <<"sleep6", "write_password", "sleep3", "return">>
          /\ tx = <<WriteLine(password)>>

C3_Witness ==
    /\ sv_pc = "returned"
    /\ outcome = "DeviceBooted"
    /\ tx = <<"123456\r\n">>

\* C4: once read_boot_response has returned, neither listener thread is still
\* running.
C4_NoListenerAfterReturn ==
    sv_pc = "returned" => (dl_pc = "done" /\ ul_pc = "done")

\* C5: a capture in progress is not stopped by the cancellation flag: the
\* device-listener never leaves its loop with a capture that has started and
\* has not reached the quota.
C5_CaptureInProgressCompletes ==
    dl_pc \in {"exit", "done"}
        => (lines_captured = 0 \/ lines_captured > lines_after_keyword)

\* C6: the supervising loop is left only when the cancellation flag is set or
\* the capture holds its full quota; while neither is the case the supervisor
\* is still in its loop, so the race has not returned.
C6_LoopExitCondition ==
    sv_pc # "loop" => (user_input \/ Len(boot_responses) > lines_after_keyword)

C6_Witness ==
    /\ sv_pc = "returned"
    /\ ~user_input
    /\ Len(boot_responses) = lines_after_keyword + 1
    /\ ul_pc = "input"

(***************************************************************************)
(* Claims about the framing loop of send_command                           *)
(***************************************************************************)

\* the positions at which a '\r\n' starts in text
Terminators(text) ==
    {i \in 1..(Len(text) - 1) : text[i] = CR /\ text[i + 1] = LF}

\* the number of '\r\n'-terminated segments of text that are not empty: a
\* terminator closes an empty segment when it opens the text or directly
\* follows another terminator
NonEmptySegments(text) ==
    Cardinality({i \in Terminators(text) :
                    i > 1 /\ (i - 2) \notin Terminators(text)})

\* the text after the last '\r\n'
TailAfterLastCRLF(text) ==
    LET T == Terminators(text)
    IN  IF T = {}
           THEN text
           ELSE SubSeq(text, (CHOOSE i \in T : \A j \in T : j <= i) + 2, Len(text))

NonBlank(text) == \E i \in 1..Len(text) : text[i] \notin Whitespace

ExpectedLines(text) ==
    NonEmptySegments(text) + (IF NonBlank(TailAfterLastCRLF(text)) THEN 1 ELSE 0)

\* C7 (as stated): when the framing loop has ended, the number of framed lines
\* is the number of non-empty CRLF-terminated segments of the bytes it read,
\* plus one exactly when the bytes after the last CRLF are not blank.
C7_LineCountOfByteStream ==
    sc_pc = "done" => Len(responses) = ExpectedLines(consumed)

\* C7 (amended): the same count, taken over the text the bytes decode to
\* (each chunk decoded as UTF-8, undecodable bytes dropped).
C7_LineCountOfDecodedText ==
    sc_pc = "done" => Len(responses) = ExpectedLines(decoded)

C7_Witness ==
    /\ sc_pc = "done"
    /\ Len(responses) = 2
    /\ NonEmptySegments(decoded) = 1
    /\ NonBlank(TailAfterLastCRLF(decoded))
    /\ buffer # <<>>

\* C8: the framing loop ends once the channel stays silent for the inactivity
\* timeout, and on a channel that never delivered a byte it ends with zero
\* framed lines when the timeout has elapsed.
C8_FramingTerminates ==
    /\ <>(sc_pc = "done")
    /\ [](sc_pc = "done" => idle >= PostWaitTicks)
    /\ []((sc_pc = "done" /\ consumed = <<>>) => responses = <<>>)

C8_Witness ==
    /\ sc_pc = "done"
    /\ consumed = <<>>
    /\ in_waiting = <<>>
    /\ responses = <<>>
    /\ idle = PostWaitTicks

(***************************************************************************)
(* Claims about the response filter of send_command                        *)
(***************************************************************************)

\* C9: "OK" is in the filtered output if and only if it is the only line of
\* the response.
C9_OkKeptIffLone ==
    sc_pc \in {"filtered", "refiltered"}
        => ((OkLine \in Range(processed_responses)) <=> (responses = <<OkLine>>))

\* C10: filtering the filtered lines again changes nothing.
C10_FilterIdempotent ==
    sc_pc = "refiltered" => refiltered = processed_responses

C10_Witness ==
    /\ sc_pc = "refiltered"
    /\ OkLine \in Range(processed_responses)
    /\ Len(processed_responses) > 1
    /\ Len(processed_responses) < Len(responses)
    /\ refiltered = processed_responses

\* the lines of s that are neither the line "Start" nor the line "OK"
NeitherStartNorOk(s) ==
    SelectSeq(s, LAMBDA l : l # StartPrefix /\ l # OkLine)

WithoutStartAndLaterOk(s) ==
    LET d == SelectSeq(s, LAMBDA l : ~StartsWith(l, StartPrefix))
    IN  IF d = <<>>
           THEN <<>>
           ELSE <<Head(d)>> \o SelectSeq(Tail(d), LAMBDA l : l # OkLine)

C12_NoStaleLineInResponse ==
    (sc_pc = "done" /\ origin.staleRead = Len(consumed))
        => processed_responses = <<>>


(***************************************************************************)
(* Claims about send_password and main, checked under SpecMain             *)
(***************************************************************************)
SendPasswordRaised == \E i \in 1..Len(events) : events[i] = "raise"

\* C13: send_password reports the confirmation exactly when some line it
\* received in its reply window contains the token Password; a silent
\* channel is reported as already unlocked; and send_password never raises.
C13_ReportsWithoutError ==
    /\ ~SendPasswordRaised
    /\ unlock_report # "none" =>
          (unlock_report = "confirmed"
              <=> \E i \in 1..Len(received) : ContainsPassword(received[i].text))
    /\ (unlock_report # "none" /\ received = <<>>) => unlock_report = "already_unlocked"

\* positions of main after send_password has returned
AfterSendPassword == (InsideWith \ InSendPassword) \ {"input_password"}

\* C14: the password is the first thing written; send_password returns only
\* after the sleep of next_command_wait_time, on the confirmed and on the
\* silent path alike; nothing else is written between the password and that
\* sleep, so no AT command is written before the handshake has completed.
C14_SettleBeforeCommands ==
    /\ Len(tx) >= 1 => tx[1] = WriteLine(password)
    /\ m_pc \in InSendPassword \ {"sp_write"} => tx = <<WriteLine(password)>>
    /\ (m_pc \in AfterSendPassword \/ Len(tx) >= 2) =>
          /\ unlock_report \in {"confirmed", "already_unlocked"}
          /\ Len(events) >= 3
          /\ SubSeq(events, 1, 3) = <<"write_password", "sleep_answer_wait",
                                      "sleep_next_command_wait">>

\* an AT command has gone out after a handshake on a silent channel
C14_Witness ==
    /\ unlock_report = "already_unlocked"
    /\ received = <<>>
    /\ Len(tx) >= 2
    /\ tx[2] = WriteLine("AT+DADDR=?")

C20_OpenedOnceClosedAtEnd ==
    /\ opens <= 1
    /\ m_pc \in InsideWith => (ser_open /\ opens = 1)
    /\ m_pc \in Terminal => ~ser_open
    /\ tx # <<>> => opens = 1

\* a signal ended a session that had already written to the port
C20_Witness ==
    /\ m_pc = "exit_signal"
    /\ opens = 1
    /\ tx # <<>>
    /\ ~ser_open


(***************************************************************************)
(* Claims about fetch_logger_entries                                       *)
(***************************************************************************)
\* the stripped non-empty lines of a text, each ended by a newline
EntryLines(text) == SplitEntries(text, <<>>).logger_data

\* everything the device sends after the call starts
Channel == consumed \o in_waiting \o stream

\* what has reached the host since the call started
Delivered == consumed \o in_waiting

\* C15: when the stream holds at least entries lines, fetch_logger_entries
\* returns exactly entries of them, the first ones in arrival order.
\* Checked under SpecFetch.
C15_ReturnsExactlyEntries ==
    f_pc = "done" =>
        /\ Len(logger_data) = entries
        /\ logger_data = SubSeq(EntryLines(Decode(Channel)), 1, entries)

C16_WitnessSilent ==
    /\ f_pc = "loop"
    /\ stream = <<>>
    /\ in_waiting = <<>>
    /\ consumed # <<>>
    /\ Len(logger_data) < entries


(***************************************************************************)
(* Claims about process_datalogger_entries                                 *)
(***************************************************************************)
\* the tokens of an entry: what is between its spaces
Tokens(entry) == SelectSeq(SplitOn(entry, SP), LAMBDA t : t # <<>>)

CountOf(c, s) == Cardinality({i \in 1..Len(s) : s[i] = c})

\* what follows the first '=' of a token
ValuePart(token) ==
    LET i == CHOOSE j \in 1..Len(token) :
                 token[j] = EQ /\ \A k \in 1..(j - 1) : token[k] # EQ
    IN SubSeq(token, i + 1, Len(token))

\* C18: a non-skipped entry gives one column per token, in order: the first
\* token as it is, a later token with '=' its value part, a later token
\* without '=' as it is; a token with more than one '=' is not dropped.
\* Checked under SpecParse.
C18_OneColumnPerToken ==
    (p_pc = "done" /\ ~SkipsEntry(raw_entries[1])) =>
        /\ Len(processed_entries) = 1
        /\ LET tokens == Tokens(raw_entries[1])
               columns == SplitOn(processed_entries[1], COMMA)
           IN /\ Len(columns) = Len(tokens)
              /\ columns[1] = tokens[1]
              /\ \A i \in 2..Len(tokens) :
                    columns[i] = IF CountOf(EQ, tokens[i]) = 0 THEN tokens[i]
                                 ELSE ValuePart(tokens[i])

KeptEntries == SelectSeq(raw_entries, LAMBDA e : ~SkipsEntry(e))

SkippedEntries == SelectSeq(raw_entries, LAMBDA e : SkipsEntry(e))

\* C19: at the end of a batch there is one record for each entry that is
\* neither too short nor holds a noise word, in input order, and one logged
\* message for each skipped entry.  Checked under SpecBatch.
C19_SkippedLoggedOthersKept ==
    p_pc = "done" =>
        /\ Len(processed_entries) = Len(KeptEntries)
        /\ \A i \in 1..Len(KeptEntries) :
              SplitOn(processed_entries[i], COMMA)[1] = Tokens(KeptEntries[i])[1]
        /\ Len(printed) = Len(SkippedEntries)

\* C19 without the logging: one record for each kept entry, in input order
C19_OneRecordPerKeptEntry ==
    p_pc = "done" =>
        /\ Len(processed_entries) = Len(KeptEntries)
        /\ \A i \in 1..Len(KeptEntries) :
              SplitOn(processed_entries[i], COMMA)[1] = Tokens(KeptEntries[i])[1]


(***************************************************************************)
(* Claims about the capture buffer of read_boot_response                   *)
(***************************************************************************)
\* C23: boot_responses is changed only by the device-listener, only by
\* appending the line it has just read, and the listener reads the channel
\* first in, first out; the buffer is empty or starts with a keyword line,
\* holds no empty line, and never holds more than lines_after_keyword + 1
\* lines.  Checked under SpecRace.
C23_CaptureBufferDiscipline ==
    /\ [](/\ boot_responses # <<>> => HasKeyword(boot_responses[1])
          /\ Len(boot_responses) <= lines_after_keyword + 1
          /\ \A i \in 1..Len(boot_responses) : boot_responses[i] # BlankLine)
    /\ [][/\ boot_responses' # boot_responses =>
                /\ dl_pc = "proc"
                /\ boot_responses' = Append(boot_responses, response)
          /\ response' # response =>
                /\ dl_pc = "poll"
                /\ rx # <<>>
                /\ response' = Head(rx)
                /\ rx' = Tail(rx)]_vars

\* the buffer is full and a further line of the boot text was left out
C23_Witness ==
    /\ Len(boot_responses) = lines_after_keyword + 1
    /\ emitted > lines_after_keyword + 1
    /\ rx = <<>>
    /\ dl_pc = "done"
    /\ \A i \in 2..Len(boot_responses) : boot_responses[i] = OtherLine


(***************************************************************************)
(* Claims about the users of the channel, checked under SpecRaceOverview   *)
(***************************************************************************)
\* a send_command of the overview is in flight
ExchangeInFlight == sv_pc \in {"overview", "overview_last"}

\* the device-listener is at its test of ser.in_waiting and its readline
ListenerOnChannel == dl_pc = "poll"

\* C22: never are two activities using the channel: while a send_command
\* issued after read_boot_response has returned is in flight, the
\* device-listener is not at its read of the channel.
C22_OneChannelUser == ~(ExchangeInFlight /\ ListenerOnChannel)


\* C21: a failure of a read of the channel is fatal: once the read of the
\* device-listener has failed, nothing more is written to the channel.
\* Checked under SpecRaceOverview.
C21_NothingWrittenAfterFailure ==
    failed_at # <<>> => Len(tx) = failed_at[1]


(***************************************************************************)
(* Claims about chunking in send_command, checked under SpecFrame          *)
(***************************************************************************)
\* the lines of a text framed as a whole: its non-empty segments ended by
\* CR LF, then what follows the last terminator, stripped, when not empty
RECURSIVE FramedAsOneChunk(_)
FramedAsOneChunk(text) ==
    IF FirstCRLF(text) = 0
       THEN IF Strip(text) # <<>> THEN <<Strip(text)>> ELSE <<>>
       ELSE LET i == FirstCRLF(text)
            IN (IF i > 1 THEN <<SubSeq(text, 1, i - 1)>> ELSE <<>>)
                  \o FramedAsOneChunk(SubSeq(text, i + 2, Len(text)))

\* C24: for an ASCII stream read to its end before the timeout, the framed
\* lines are those of the stream framed as one chunk, however it was split
\* into chunks, so any two splittings give the same lines.
C24_FramingIndependentOfChunks ==
    (sc_pc = "done" /\ BadByte \notin Range(consumed))
        => responses = FramedAsOneChunk(consumed)

\* a chunk has ended between the CR and the LF of a terminator
C24_Witness ==
    /\ sc_pc = "loop"
    /\ buffer = <<"a", CR>>
    /\ responses = <<>>
    /\ in_waiting # <<>>
    /\ in_waiting[1] = LF


(***************************************************************************)
(* Claims about the reply and the input discard of send_command            *)
(***************************************************************************)
\* C26: no byte the device emits after the command has been written is
\* lost: none is discarded by flushInput.  Checked under SpecExchange.
C26_NoReplyByteLost == origin.replyLost = 0


(***************************************************************************)
(* Claims about fetch_logger_entries and pending bytes                     *)
(***************************************************************************)
\* the bytes read that the device sent after the call started
ReadOfReply == SubSeq(consumed, origin.staleRead + 1, Len(consumed))

\* C25: the entries returned are lines of the reply to AT+PLDTA only: bytes
\* that were waiting when the command was written add no entry and no part
\* of one.  Checked under SpecFetchPending.
C25_OnlyReplyLinesReturned ==
    f_pc = "done" => logger_data = EntryLines(Decode(ReadOfReply))


(***************************************************************************)
(* Claims about clearing the datalogger memory, checked under SpecMain     *)
(***************************************************************************)
\* the position of an event in events, 0 when it has not happened
EventAt(e) ==
    IF \E i \in 1..Len(events) : events[i] = e
       THEN CHOOSE i \in 1..Len(events) : events[i] = e
       ELSE 0

ClearWritten == \E i \in 1..Len(tx) : tx[i] = WriteLine("AT+CLRDTA")

\* the operator answered y, in either case
AnsweredYes == EventAt("confirm_clear y") + EventAt("confirm_clear Y")

\* C27: AT+CLRDTA is written only after the operator has answered y to
\* confirm_clear, with --clear given, and, when an export was asked for, only
\* after fetch_logger_entries and export_to_csv have ended, in this order;
\* it is written at most once and is the last thing written; after a
\* cancelled export or any other answer it is never written.
C27_ClearOnlyAfterConfirmation ==
    /\ ClearWritten =>
          /\ args_clear
          /\ AnsweredYes > 0
          /\ tx[Len(tx)] = WriteLine("AT+CLRDTA")
          /\ Cardinality({i \in 1..Len(tx) : tx[i] = WriteLine("AT+CLRDTA")}) = 1
          /\ args_export # NoNumber =>
                /\ 0 < EventAt("fetch_logger_entries")
                /\ EventAt("fetch_logger_entries") < EventAt("export_to_csv")
                /\ EventAt("export_to_csv") < AnsweredYes
    /\ m_pc = "clear_write" => AnsweredYes > 0
    /\ (\/ EventAt("export_cancelled") > 0
        \/ \E a \in ClearAnswers \ {"y", "Y"} : EventAt("confirm_clear " \o a) > 0)
          => ~ClearWritten

\* the memory was cleared after an export
C27_Witness ==
    /\ ClearWritten
    /\ args_export # NoNumber
    /\ EventAt("export_to_csv") > 0
    /\ m_pc = "exit_sysexit"

====
